---- MODULE Spec2Model ----
(***************************************************************************)
(* Job-poster scripts of the repository: post_jobs.py (multi-channel),     *)
(* post_security_jobs.py and post_support_jobs.py (single-channel).        *)
(* Text is modelled as sequences of one-character strings so that          *)
(* lower-casing and substring search are computed, not assumed.            *)
(***************************************************************************)
EXTENDS Integers, Sequences, FiniteSets, TLC

VARIABLES
  variant,          \* which script runs: "jobs", "security" or "support"
  api_key,          \* TRUE iff HIREBASE_API_KEY is set and non-empty
  webhooks,         \* names of the channels whose webhook variable is set
  test_mode,        \* TEST_MODE == 'true' (post_security_jobs only)
  pc,               \* position of main()
  jobs,             \* the fetched job list (names of records of Job)
  jobs_by_channel,  \* post_jobs: channel -> indices into jobs, in order
  chan,             \* post_jobs: position of the channel loop
  idx,              \* position of the job loop
  total_posted,     \* post_jobs: counter of successful posts
  exit_code,        \* process exit status, -1 while running
  error_names,      \* variable names listed by the configuration error
  search_calls,     \* number of requests sent to the search API
  fetch_status,     \* how the search request ended, "none" before it
  attempted,        \* delivery requests sent to webhooks, in order
  slept,            \* TRUE iff time.sleep ran after the latest delivery request
  report,           \* what the run reports at its end
  title,            \* categorize_job: argument
  description,      \* categorize_job: argument
  categories,       \* categorize_job: argument
  result,           \* categorize_job: returned channel
  job_arg,          \* format_job_embed: argument
  embed             \* format_job_embed: returned embed

vars == <<variant, api_key, webhooks, test_mode, pc, jobs, jobs_by_channel,
          chan, idx, total_posted, exit_code, error_names, search_calls,
          fetch_status, attempted, slept, report, title, description, categories, result,
          job_arg, embed>>

runVars == <<variant, api_key, webhooks, test_mode, pc, jobs, jobs_by_channel,
             chan, idx, total_posted, exit_code, error_names, search_calls,
             fetch_status, attempted, slept, report>>

classifyVars == <<title, description, categories, result>>

formatVars == <<job_arg, embed>>

\* ---------------------------------------------------------------- bounds
MaxJobs == 6          \* longest job list returned to post_jobs
MaxSingleJobs == 11   \* longest job list returned to a single-channel script

\* ------------------------------------------------------------- constants
ChannelCap == 5       \* channel_jobs[:5]
SupportCap == 10      \* jobs[:10]

None == "None"

\* ------------------------------------------------------------------ text
UpperToLower ==
  [ A |-> "a", B |-> "b", C |-> "c", D |-> "d", E |-> "e", F |-> "f",
    G |-> "g", H |-> "h", I |-> "i", J |-> "j", K |-> "k", L |-> "l",
    M |-> "m", N |-> "n", O |-> "o", P |-> "p", Q |-> "q", R |-> "r",
    S |-> "s", T |-> "t", U |-> "u", V |-> "v", W |-> "w", X |-> "x",
    Y |-> "y", Z |-> "z" ]

\* str.lower()
Lower(text) ==
  [i \in 1..Len(text) |->
     IF text[i] \in DOMAIN UpperToLower THEN UpperToLower[text[i]] ELSE text[i]]

RECURSIVE Join(_)
\* ' '.join(words)
Join(words) ==
  IF Len(words) = 0 THEN <<>>
  ELSE IF Len(words) = 1 THEN words[1]
  ELSE words[1] \o <<" ">> \o Join(Tail(words))

\* keyword in text
Contains(keyword, text) ==
  \E i \in 1..(Len(text) - Len(keyword) + 1) :
     SubSeq(text, i, i + Len(keyword) - 1) = keyword

\* ------------------------------------------------------------ classifier
CHANNEL_ORDER ==
  <<"data", "operations", "security", "development", "management",
    "network", "supporthelp">>

CHANNEL_KEYWORDS ==
  [ data |->
      <<<<"d","a","t","a">>,
        <<"a","n","a","l","y","s","t">>,
        <<"a","n","a","l","y","t","i","c","s">>,
        <<"s","c","i","e","n","t","i","s","t">>,
        <<"e","n","g","i","n","e","e","r">>,
        <<"b","i">>,
        <<"b","u","s","i","n","e","s","s"," ","i","n","t","e","l","l","i","g","e","n","c","e">>,
        <<"s","q","l">>,
        <<"t","a","b","l","e","a","u">>,
        <<"p","o","w","e","r"," ","b","i">>>>,
    operations |->
      <<<<"o","p","e","r","a","t","i","o","n","s">>,
        <<"o","p","s">>,
        <<"d","e","v","o","p","s">>,
        <<"s","r","e">>,
        <<"s","i","t","e"," ","r","e","l","i","a","b","i","l","i","t","y">>,
        <<"i","n","f","r","a","s","t","r","u","c","t","u","r","e">>,
        <<"s","y","s","t","e","m","s">>,
        <<"p","l","a","t","f","o","r","m">>>>,
    security |->
      <<<<"s","e","c","u","r","i","t","y">>,
        <<"i","n","f","o","s","e","c">>,
        <<"c","y","b","e","r","s","e","c","u","r","i","t","y">>,
        <<"c","y","b","e","r">>,
        <<"p","e","n","e","t","r","a","t","i","o","n">>,
        <<"s","o","c">>,
        <<"g","r","c">>,
        <<"c","o","m","p","l","i","a","n","c","e">>,
        <<"r","i","s","k">>>>,
    development |->
      <<<<"d","e","v","e","l","o","p","e","r">>,
        <<"s","o","f","t","w","a","r","e"," ","e","n","g","i","n","e","e","r">>,
        <<"f","r","o","n","t","e","n","d">>,
        <<"b","a","c","k","e","n","d">>,
        <<"f","u","l","l"," ","s","t","a","c","k">>,
        <<"f","u","l","l","s","t","a","c","k">>,
        <<"m","o","b","i","l","e">>,
        <<"w","e","b">>,
        <<"p","r","o","g","r","a","m","m","e","r">>,
        <<"c","o","d","i","n","g">>>>,
    management |->
      <<<<"m","a","n","a","g","e","r">>,
        <<"d","i","r","e","c","t","o","r">>,
        <<"l","e","a","d">>,
        <<"h","e","a","d"," ","o","f">>,
        <<"c","h","i","e","f">>,
        <<"v","p">>,
        <<"v","i","c","e"," ","p","r","e","s","i","d","e","n","t">>,
        <<"e","x","e","c","u","t","i","v","e">>,
        <<"c","t","o">>,
        <<"c","i","o">>>>,
    network |->
      <<<<"n","e","t","w","o","r","k">>,
        <<"n","e","t","w","o","r","k","i","n","g">>,
        <<"c","i","s","c","o">>,
        <<"r","o","u","t","i","n","g">>,
        <<"s","w","i","t","c","h","i","n","g">>,
        <<"f","i","r","e","w","a","l","l">>,
        <<"v","p","n">>,
        <<"w","a","n">>,
        <<"l","a","n">>>>,
    supporthelp |->
      <<<<"s","u","p","p","o","r","t">>,
        <<"h","e","l","p"," ","d","e","s","k">>,
        <<"h","e","l","p","d","e","s","k">>,
        <<"c","u","s","t","o","m","e","r"," ","s","e","r","v","i","c","e">>,
        <<"t","e","c","h","n","i","c","a","l"," ","s","u","p","p","o","r","t">>,
        <<"i","t"," ","s","u","p","p","o","r","t">>,
        <<"s","e","r","v","i","c","e"," ","d","e","s","k">>>> ]

\* mutant of search_text: the .lower() call is missing
search_text_case_sensitive(t, d, c) ==
  t \o <<" ">> \o d \o <<" ">> \o Join(c)

\* f"{title} {description} {' '.join(categories or [])}".lower()
\* (a missing or null categories argument is the empty sequence: `or []`)
search_text(t, d, c) ==
  Lower(t \o <<" ">> \o d \o <<" ">> \o Join(c))

\* any(keyword in search_text for keyword in keywords)
AnyKeyword(keywords, text) ==
  \E k \in 1..Len(keywords) : Contains(keywords[k], text)

SORTED_ORDER ==
  <<"data", "development", "management", "network", "operations",
    "security", "supporthelp">>

RECURSIVE FirstChannelSorted(_, _)
\* mutant of FirstChannel: the table is walked in sorted key order
FirstChannelSorted(i, text) ==
  IF i > Len(SORTED_ORDER) THEN None
  ELSE IF AnyKeyword(CHANNEL_KEYWORDS[SORTED_ORDER[i]], text)
       THEN SORTED_ORDER[i]
       ELSE FirstChannelSorted(i + 1, text)

RECURSIVE FirstChannel(_, _)
\* for channel, keywords in CHANNEL_KEYWORDS.items(): ... return channel
FirstChannel(i, text) ==
  IF i > Len(CHANNEL_ORDER) THEN None
  ELSE IF AnyKeyword(CHANNEL_KEYWORDS[CHANNEL_ORDER[i]], text)
       THEN CHANNEL_ORDER[i]
       ELSE FirstChannel(i + 1, text)

categorize_job(t, d, c) == FirstChannel(1, search_text(t, d, c))

\* ------------------------------------------------- inputs of the classifier
SOC_Analyst == <<"S","O","C"," ","A","n","a","l","y","s","t">>
Security_Engineer == <<"S","e","c","u","r","i","t","y"," ","E","n","g","i","n","e","e","r">>
Penetration_Tester == <<"P","e","n","e","t","r","a","t","i","o","n"," ","T","e","s","t","e","r">>
Help_Desk_Technician == <<"H","e","l","p"," ","D","e","s","k"," ","T","e","c","h","n","i","c","i","a","n">>
Nurse == <<"N","u","r","s","e">>
Title_Head == <<"H","e","a","d">>
Empty == <<>>
incident_response == <<"i","n","c","i","d","e","n","t"," ","r","e","s","p","o","n","s","e">>
Triage_alerts == <<"T","r","i","a","g","e"," ","i","n","c","i","d","e","n","t"," ","r","e","s","p","o","n","s","e"," ","a","l","e","r","t","s">>
of_sales == <<"o","f"," ","s","a","l","e","s">>
patient_care == <<"p","a","t","i","e","n","t"," ","c","a","r","e">>
Networking == <<"N","e","t","w","o","r","k","i","n","g">>
IT_Support == <<"I","T"," ","S","u","p","p","o","r","t">>
Customer_Service == <<"C","u","s","t","o","m","e","r"," ","S","e","r","v","i","c","e">>

Titles ==
  {SOC_Analyst, Security_Engineer, Penetration_Tester, Help_Desk_Technician,
   Nurse, Title_Head, Empty}
Descriptions ==
  {incident_response, Triage_alerts, of_sales, patient_care, Empty}
Hints == {<<>>, <<Networking>>, <<IT_Support, Customer_Service>>}

\* ------------------------------------------------------------ job records
\* The records a search response can carry.  "bad" is an entry that is not
\* a mapping (a bare string in the JSON list).
Job ==
  [ soc      |-> [is_dict |-> TRUE, job_title |-> SOC_Analyst,
                  description |-> incident_response, job_categories |-> <<>>],
    helpdesk |-> [is_dict |-> TRUE, job_title |-> Help_Desk_Technician,
                  description |-> Empty, job_categories |-> <<>>],
    nurse    |-> [is_dict |-> TRUE, job_title |-> Nurse,
                  description |-> patient_care, job_categories |-> <<>>],
    bad      |-> [is_dict |-> FALSE, job_title |-> Empty,
                  description |-> Empty, job_categories |-> <<>>] ]

JobKinds == {"soc", "helpdesk", "nurse", "bad"}
SingleJobKinds == {"soc", "bad"}
HookChoices == {"data", "security", "supporthelp"}

BoundedSeq(S, n) == UNION {[1..k -> S] : k \in 0..n}

Min(a, b) == IF a < b THEN a ELSE b

\* categorize_job(job.get('job_title', ''), job.get('description', ''),
\*                job.get('job_categories')) of each record
JobChannel ==
  [j \in {k \in JobKinds : Job[k].is_dict} |->
     categorize_job(Job[j].job_title, Job[j].description,
                    Job[j].job_categories)]

\* Ways the search request fails: a 4xx/5xx status (raise_for_status), a
\* network failure or timeout, a body that is not JSON (response.json()
\* raises requests.exceptions.JSONDecodeError, a RequestException), and a
\* JSON body that is not a mapping (AttributeError on .get).
FetchErrors == {"http_error", "request_error", "bad_json", "bad_shape"}

NoReport == [n \in {} |-> 0]

Exit(code) == /\ pc' = "done"
              /\ exit_code' = code

Webhook(kind, channel, job, ok) ==
  [kind |-> kind, channel |-> channel, job |-> job, ok |-> ok]

\* ------------------------------------------------------------------ Init
Init ==
  /\ variant \in {"jobs", "security", "support"}
  /\ api_key \in BOOLEAN
  /\ webhooks \in IF variant = "jobs" THEN SUBSET HookChoices
                                       ELSE SUBSET {"security"}
  /\ test_mode \in IF variant = "security" THEN BOOLEAN ELSE {FALSE}
  /\ pc = "start"
  /\ jobs = <<>>
  /\ jobs_by_channel = [c \in {} |-> <<>>]
  /\ chan = 1
  /\ idx = 1
  /\ total_posted = 0
  /\ exit_code = -1
  /\ error_names = {}
  /\ search_calls = 0
  /\ fetch_status = "none"
  /\ attempted = <<>>
  /\ slept = FALSE
  /\ report = NoReport
  /\ title = <<>>
  /\ description = <<>>
  /\ categories = <<>>
  /\ result = None
  /\ job_arg = <<>>
  /\ embed = <<>>

\* ------------------------------------------------------------ post_jobs.py
\* main() up to the categorisation loop, with fetch_jobs()
JobsFetch ==
  /\ pc = "start"
  /\ variant = "jobs"
  /\ IF ~api_key
     THEN \* raise Exception('HIREBASE_API_KEY not configured')
          /\ error_names' = {"HIREBASE_API_KEY"}
          /\ Exit(1)
          /\ UNCHANGED <<jobs, search_calls, fetch_status>>
     ELSE /\ search_calls' = search_calls + 1
          /\ UNCHANGED error_names
          /\ \/ \E e \in FetchErrors :
                  \* both except clauses re-raise, and response.get fails
                  \* on a body that is not a mapping: main() exits 1
                  /\ fetch_status' = e
                  /\ Exit(1)
                  /\ UNCHANGED jobs
             \/ \E js \in BoundedSeq(JobKinds, MaxJobs) :
                  /\ fetch_status' = "ok"
                  /\ jobs' = js
                  /\ IF js = <<>>
                     THEN Exit(0)
                     ELSE /\ pc' = "categorize"
                          /\ UNCHANGED exit_code
  /\ UNCHANGED <<variant, api_key, webhooks, test_mode, jobs_by_channel, chan,
                 idx, total_posted, attempted, report>>
  /\ UNCHANGED slept
  /\ UNCHANGED classifyVars
  /\ UNCHANGED formatVars

\* channels with a keyword in the text of record j
MatchingChannels(j) ==
  {c \in {CHANNEL_ORDER[k] : k \in 1..Len(CHANNEL_ORDER)} :
     AnyKeyword(CHANNEL_KEYWORDS[c],
                search_text(Job[j].job_title, Job[j].description,
                            Job[j].job_categories))}

\* MatchingChannels of each record
JobMatches ==
  [j \in {k \in JobKinds : Job[k].is_dict} |-> MatchingChannels(j)]

RECURSIVE CategorizedEveryMatch(_, _, _)
\* mutant of Categorized: a job is appended to every channel it matches
CategorizedEveryMatch(js, i, acc) ==
  IF i > Len(js) THEN acc
  ELSE CategorizedEveryMatch(js, i + 1,
         [c \in DOMAIN acc |->
            IF c \in JobMatches[js[i]] THEN Append(acc[c], i)
                                             ELSE acc[c]])

RECURSIVE Categorized(_, _, _)
\* for job in jobs: ... jobs_by_channel[channel].append(job)
Categorized(js, i, acc) ==
  IF i > Len(js) THEN acc
  ELSE LET channel == JobChannel[js[i]] IN
       IF channel # None /\ channel \in DOMAIN acc
       THEN Categorized(js, i + 1,
                        [acc EXCEPT ![channel] = Append(@, i)])
       ELSE Categorized(js, i + 1, acc)

\* the categorisation loop of main()
JobsCategorize ==
  /\ pc = "categorize"
  /\ IF \E i \in 1..Len(jobs) : ~Job[jobs[i]].is_dict
     THEN \* job.get raises AttributeError, caught by main()
          /\ Exit(1)
          /\ UNCHANGED <<jobs_by_channel>>
     ELSE /\ jobs_by_channel' =
               Categorized(jobs, 1,
                           [c \in {CHANNEL_ORDER[k] : k \in 1..Len(CHANNEL_ORDER)}
                              |-> <<>>])
          /\ pc' = "post"
          /\ UNCHANGED exit_code
  /\ UNCHANGED <<variant, api_key, webhooks, test_mode, jobs, chan, idx,
                 total_posted, error_names, search_calls, fetch_status, attempted,
                 report>>
  /\ UNCHANGED slept
  /\ UNCHANGED classifyVars
  /\ UNCHANGED formatVars

\* mutant of jobs_to_post: the [:5] slice is missing
jobs_to_post_uncapped(channel_jobs) == channel_jobs

\* jobs_to_post = channel_jobs[:5]
jobs_to_post(channel_jobs) ==
  SubSeq(channel_jobs, 1, Min(ChannelCap, Len(channel_jobs)))

NextChannel ==
  /\ chan' = chan + 1
  /\ idx' = 1

\* mutant of JobsSkipNoWebhook: a channel without a webhook fails the run
JobsNoWebhookFailsRun ==
  /\ pc = "post"
  /\ variant = "jobs"
  /\ chan <= Len(CHANNEL_ORDER)
  /\ CHANNEL_ORDER[chan] \notin webhooks
  /\ Exit(1)
  /\ UNCHANGED <<variant, api_key, webhooks, test_mode, jobs, chan, idx,
                 jobs_by_channel, total_posted, error_names,
                 search_calls, fetch_status, attempted, report>>
  /\ UNCHANGED slept
  /\ UNCHANGED classifyVars
  /\ UNCHANGED formatVars

\* if not webhooks[channel]: continue
JobsSkipNoWebhook ==
  /\ pc = "post"
  /\ variant = "jobs"
  /\ chan <= Len(CHANNEL_ORDER)
  /\ CHANNEL_ORDER[chan] \notin webhooks
  /\ NextChannel
  /\ UNCHANGED <<variant, api_key, webhooks, test_mode, pc, jobs,
                 jobs_by_channel, total_posted, exit_code, error_names,
                 search_calls, fetch_status, attempted, report>>
  /\ UNCHANGED slept
  /\ UNCHANGED classifyVars
  /\ UNCHANGED formatVars

\* if not channel_jobs: continue
JobsSkipNoJobs ==
  /\ pc = "post"
  /\ variant = "jobs"
  /\ chan <= Len(CHANNEL_ORDER)
  /\ CHANNEL_ORDER[chan] \in webhooks
  /\ jobs_by_channel[CHANNEL_ORDER[chan]] = <<>>
  /\ NextChannel
  /\ UNCHANGED <<variant, api_key, webhooks, test_mode, pc, jobs,
                 jobs_by_channel, total_posted, exit_code, error_names,
                 search_calls, fetch_status, attempted, report>>
  /\ UNCHANGED slept
  /\ UNCHANGED classifyVars
  /\ UNCHANGED formatVars

\* mutant of JobsPost: the try/except encloses the loops, so a failed
\* delivery ends main() with exit code 1
JobsPostAbortsOnError ==
  /\ pc = "post"
  /\ variant = "jobs"
  /\ chan <= Len(CHANNEL_ORDER)
  /\ CHANNEL_ORDER[chan] \in webhooks
  /\ LET channel == CHANNEL_ORDER[chan]
         to_post == jobs_to_post(jobs_by_channel[channel])
     IN /\ idx <= Len(to_post)
        /\ \E ok \in BOOLEAN :
             /\ attempted' =
                  Append(attempted, Webhook("embed", channel, to_post[idx], ok))
             /\ total_posted' = IF ok THEN total_posted + 1 ELSE total_posted
             \* time.sleep(1) is the last statement of the try block
             /\ slept' = ok
             /\ IF ~ok
                THEN Exit(1) /\ UNCHANGED <<chan, idx>>
                ELSE /\ UNCHANGED <<pc, exit_code>>
                     /\ IF idx = Len(to_post)
                        THEN NextChannel
                        ELSE idx' = idx + 1 /\ UNCHANGED chan
  /\ UNCHANGED <<variant, api_key, webhooks, test_mode, jobs,
                 jobs_by_channel, error_names, search_calls,
                 fetch_status, report>>
  /\ UNCHANGED classifyVars
  /\ UNCHANGED formatVars

\* mutant of JobsPost: total_posted is incremented before the request
JobsPostCountsEveryAttempt ==
  /\ pc = "post"
  /\ variant = "jobs"
  /\ chan <= Len(CHANNEL_ORDER)
  /\ CHANNEL_ORDER[chan] \in webhooks
  /\ LET channel == CHANNEL_ORDER[chan]
         to_post == jobs_to_post(jobs_by_channel[channel])
     IN /\ idx <= Len(to_post)
        /\ \E ok \in BOOLEAN :
             /\ attempted' =
                  Append(attempted, Webhook("embed", channel, to_post[idx], ok))
             /\ total_posted' = total_posted + 1
             /\ slept' = ok
        /\ IF idx = Len(to_post) THEN NextChannel
                                 ELSE idx' = idx + 1 /\ UNCHANGED chan
  /\ UNCHANGED <<variant, api_key, webhooks, test_mode, pc, jobs,
                 jobs_by_channel, exit_code, error_names, search_calls,
                 fetch_status, report>>
  /\ UNCHANGED classifyVars
  /\ UNCHANGED formatVars

\* one iteration of `for job in jobs_to_post`
JobsPost ==
  /\ pc = "post"
  /\ variant = "jobs"
  /\ chan <= Len(CHANNEL_ORDER)
  /\ CHANNEL_ORDER[chan] \in webhooks
  /\ LET channel == CHANNEL_ORDER[chan]
         to_post == jobs_to_post(jobs_by_channel[channel])
     IN /\ idx <= Len(to_post)
        /\ \E ok \in BOOLEAN :
             \* post_to_discord raises unless the status is 204
             /\ attempted' =
                  Append(attempted, Webhook("embed", channel, to_post[idx], ok))
             /\ total_posted' = IF ok THEN total_posted + 1 ELSE total_posted
             \* time.sleep(1) is the last statement of the try block
             /\ slept' = ok
        /\ IF idx = Len(to_post) THEN NextChannel
                                 ELSE idx' = idx + 1 /\ UNCHANGED chan
  /\ UNCHANGED <<variant, api_key, webhooks, test_mode, pc, jobs,
                 jobs_by_channel, exit_code, error_names, search_calls,
                 fetch_status, report>>
  /\ UNCHANGED classifyVars
  /\ UNCHANGED formatVars

\* print(f'Job posting complete! Posted {total_posted} jobs total.')
JobsFinish ==
  /\ pc = "post"
  /\ variant = "jobs"
  /\ chan > Len(CHANNEL_ORDER)
  /\ report' = [n \in {"posted"} |-> total_posted]
  /\ Exit(0)
  /\ UNCHANGED <<variant, api_key, webhooks, test_mode, jobs, jobs_by_channel,
                 chan, idx, total_posted, error_names, search_calls,
                 fetch_status, attempted>>
  /\ UNCHANGED slept
  /\ UNCHANGED classifyVars
  /\ UNCHANGED formatVars

\* ------------------------------------------- post_security_jobs.py, main()
\* validate_environment() and the TEST_MODE test of main()
SecurityValidate ==
  /\ pc = "start"
  /\ variant = "security"
  /\ LET missing == (IF api_key THEN {} ELSE {"HIREBASE_API_KEY"}) \cup
                    (IF "security" \in webhooks THEN {}
                                                ELSE {"DISCORD_SECURITY_HOOK"})
     IN IF missing # {}
        THEN \* raise ConfigError(error_msg)
             /\ error_names' = missing
             /\ Exit(1)
        ELSE /\ pc' = IF test_mode THEN "test" ELSE "fetch"
             /\ UNCHANGED <<error_names, exit_code>>
  /\ UNCHANGED <<variant, api_key, webhooks, test_mode, jobs, jobs_by_channel,
                 chan, idx, total_posted, search_calls, fetch_status,
                 attempted, report>>
  /\ UNCHANGED slept
  /\ UNCHANGED classifyVars
  /\ UNCHANGED formatVars

\* send_test_message() and sys.exit(0 if success else 1)
SecuritySendTest ==
  /\ pc = "test"
  /\ \E ok \in BOOLEAN :
       /\ attempted' = Append(attempted, Webhook("test", "security", 0, ok))
       /\ report' = [n \in {"success"} |-> ok]
       /\ Exit(IF ok THEN 0 ELSE 1)
  /\ UNCHANGED <<variant, api_key, webhooks, test_mode, jobs, jobs_by_channel,
                 chan, idx, total_posted, error_names, search_calls,
                 fetch_status>>
  /\ UNCHANGED slept
  /\ UNCHANGED classifyVars
  /\ UNCHANGED formatVars

\* -------------------------------------------- post_support_jobs.py, main()
\* the two `if not ...: raise Exception(...)` tests of main()
SupportValidate ==
  /\ pc = "start"
  /\ variant = "support"
  /\ IF ~api_key
     THEN /\ error_names' = {"HIREBASE_API_KEY"}
          /\ Exit(1)
     ELSE IF "security" \notin webhooks
     THEN /\ error_names' = {"DISCORD_SECURITY_HOOK"}
          /\ Exit(1)
     ELSE /\ pc' = "fetch"
          /\ UNCHANGED <<error_names, exit_code>>
  /\ UNCHANGED <<variant, api_key, webhooks, test_mode, jobs, jobs_by_channel,
                 chan, idx, total_posted, search_calls, fetch_status,
                 attempted, report>>
  /\ UNCHANGED slept
  /\ UNCHANGED classifyVars
  /\ UNCHANGED formatVars

\* ------------------------------------------------ both single-channel scripts
\* fetch_cybersecurity_jobs() / fetch_security_jobs() and `if not jobs`
SingleFetch ==
  /\ pc = "fetch"
  /\ search_calls' = search_calls + 1
  /\ \/ \E e \in FetchErrors \ {"bad_shape"} :
          \* except HTTPError / RequestException: return []
          /\ fetch_status' = e
          /\ jobs' = <<>>
          /\ Exit(0)
     \/ \* data.get raises AttributeError, caught by main()
        /\ fetch_status' = "bad_shape"
        /\ jobs' = <<>>
        /\ Exit(1)
     \/ \E js \in BoundedSeq(SingleJobKinds, MaxSingleJobs) :
          /\ fetch_status' = "ok"
          /\ jobs' = js
          /\ IF js = <<>>
             THEN Exit(0)
             ELSE /\ pc' = "summary"
                  /\ UNCHANGED exit_code
  /\ UNCHANGED <<variant, api_key, webhooks, test_mode, jobs_by_channel, chan,
                 idx, total_posted, error_names, attempted, report>>
  /\ UNCHANGED slept
  /\ UNCHANGED classifyVars
  /\ UNCHANGED formatVars

\* what main() does with the value post_to_discord returns
Return(success) ==
  /\ report' = [n \in {"success"} |-> success]
  /\ Exit(IF success THEN 0 ELSE 1)

\* mutant of SingleSummary: raise_for_status() is not called on the
\* response of the summary request
SingleSummaryIgnoresError ==
  /\ pc = "summary"
  /\ \E ok \in BOOLEAN :
       attempted' = Append(attempted, Webhook("summary", "security", 0, ok))
  /\ pc' = "post"
  /\ idx' = 1
  /\ UNCHANGED <<variant, api_key, webhooks, test_mode, jobs, jobs_by_channel,
                 chan, total_posted, error_names, search_calls,
                 fetch_status, report, exit_code, slept>>
  /\ UNCHANGED classifyVars
  /\ UNCHANGED formatVars

\* post_to_discord(): the summary message
SingleSummary ==
  /\ pc = "summary"
  /\ \E ok \in BOOLEAN :
       /\ attempted' = Append(attempted, Webhook("summary", "security", 0, ok))
       /\ IF ok
          THEN /\ pc' = "post"
               /\ UNCHANGED <<report, exit_code>>
          ELSE Return(FALSE)
  /\ idx' = 1
  /\ UNCHANGED <<variant, api_key, webhooks, test_mode, jobs, jobs_by_channel,
                 chan, total_posted, error_names, search_calls,
                 fetch_status>>
  /\ UNCHANGED slept
  /\ UNCHANGED classifyVars
  /\ UNCHANGED formatVars

\* the list the embed loop runs over: jobs (security), jobs[:10] (support)
embed_jobs ==
  IF variant = "support" THEN SubSeq(jobs, 1, Min(SupportCap, Len(jobs)))
                         ELSE jobs

\* format_job_embed() returned None: `continue`
SingleSkip ==
  /\ pc = "post"
  /\ variant \in {"security", "support"}
  /\ idx <= Len(embed_jobs)
  /\ ~Job[embed_jobs[idx]].is_dict
  /\ idx' = idx + 1
  /\ UNCHANGED <<variant, api_key, webhooks, test_mode, pc, jobs,
                 jobs_by_channel, chan, total_posted, exit_code, error_names,
                 search_calls, fetch_status, attempted, report>>
  /\ UNCHANGED slept
  /\ UNCHANGED classifyVars
  /\ UNCHANGED formatVars

\* one iteration of the embed loop of post_to_discord()
SinglePost ==
  /\ pc = "post"
  /\ variant \in {"security", "support"}
  /\ idx <= Len(embed_jobs)
  /\ Job[embed_jobs[idx]].is_dict
  /\ \E ok \in BOOLEAN :
       /\ attempted' = Append(attempted, Webhook("embed", "security", idx, ok))
       /\ IF ok
          THEN /\ idx' = idx + 1
               /\ UNCHANGED <<pc, report, exit_code>>
          ELSE \* raise_for_status() leaves the loop: return False
               /\ Return(FALSE)
               /\ UNCHANGED idx
  /\ UNCHANGED <<variant, api_key, webhooks, test_mode, jobs, jobs_by_channel,
                 chan, total_posted, error_names, search_calls,
                 fetch_status>>
  /\ UNCHANGED slept
  /\ UNCHANGED classifyVars
  /\ UNCHANGED formatVars

\* the loop is exhausted: return True
SingleFinish ==
  /\ pc = "post"
  /\ variant \in {"security", "support"}
  /\ idx > Len(embed_jobs)
  /\ Return(TRUE)
  /\ UNCHANGED <<variant, api_key, webhooks, test_mode, jobs, jobs_by_channel,
                 chan, idx, total_posted, error_names, search_calls,
                 fetch_status, attempted>>
  /\ UNCHANGED slept
  /\ UNCHANGED classifyVars
  /\ UNCHANGED formatVars

Next ==
  \/ JobsFetch
  \/ JobsCategorize
  \/ JobsSkipNoWebhook
  \/ JobsSkipNoJobs
  \/ JobsPost
  \/ JobsFinish
  \/ SecurityValidate
  \/ SecuritySendTest
  \/ SupportValidate
  \/ SingleFetch
  \/ SingleSummary
  \/ SingleSkip
  \/ SinglePost
  \/ SingleFinish

Spec == Init /\ [][Next]_vars

\* ------------------------------------------------ categorize_job on its own
InitClassify ==
  /\ title \in Titles
  /\ description \in Descriptions
  /\ categories \in Hints
  /\ result = "pending"
  /\ variant = "classify"
  /\ api_key = FALSE
  /\ webhooks = {}
  /\ test_mode = FALSE
  /\ pc = "classify"
  /\ jobs = <<>>
  /\ jobs_by_channel = [c \in {} |-> <<>>]
  /\ chan = 1
  /\ idx = 1
  /\ total_posted = 0
  /\ exit_code = -1
  /\ error_names = {}
  /\ search_calls = 0
  /\ fetch_status = "none"
  /\ attempted = <<>>
  /\ slept = FALSE
  /\ report = NoReport
  /\ job_arg = <<>>
  /\ embed = <<>>

Classify ==
  /\ pc = "classify"
  /\ result = "pending"
  /\ result' = categorize_job(title, description, categories)
  /\ UNCHANGED <<title, description, categories>>
  /\ UNCHANGED runVars
  /\ UNCHANGED formatVars

NextClassify == Classify

SpecClassify == InitClassify /\ [][NextClassify]_vars


\* ======================================================== format_job_embed
\* A job record is a function from the keys it has to their values, as a
\* Python dict.  Text values are sequences of characters.  The bullet
\* U+2022 of the sources is written "*", and the emoji that open the field
\* names are left out.

T_Untitled_Position == <<"U","n","t","i","t","l","e","d"," ","P","o","s","i","t","i","o","n">>
T_Not_specified == <<"N","o","t"," ","s","p","e","c","i","f","i","e","d">>
T_Remote_Not_specified == <<"R","e","m","o","t","e","/","N","o","t"," ","s","p","e","c","i","f","i","e","d">>
T_Not_disclosed == <<"N","o","t"," ","d","i","s","c","l","o","s","e","d">>
T_No_description == <<"N","o"," ","d","e","s","c","r","i","p","t","i","o","n"," ","a","v","a","i","l","a","b","l","e">>
T_Unknown == <<"U","n","k","n","o","w","n">>
T_Unknown_Position == <<"U","n","k","n","o","w","n"," ","P","o","s","i","t","i","o","n">>
T_Unknown_Company == <<"U","n","k","n","o","w","n"," ","C","o","m","p","a","n","y">>
T_Click_below == <<"C","l","i","c","k"," ","b","e","l","o","w"," ","t","o"," ","v","i","e","w"," ","f","u","l","l"," ","j","o","b"," ","d","e","t","a","i","l","s">>
T_recently == <<"r","e","c","e","n","t","l","y">>
T_USD == <<"U","S","D">>
T_year == <<"y","e","a","r">>
T_Ellipsis == <<".",".",".">>
T_None == <<"N","o","n","e">>
T_http == <<"h","t","t","p">>
T_years == <<" ","y","e","a","r","s">>
T_plus_years == <<"+"," ","y","e","a","r","s">>
T_Posted_colon == <<"P","o","s","t","e","d",":"," ">>
T_Via_API == <<" ","*"," ","V","i","a"," ","H","i","r","e","b","a","s","e"," ","A","P","I">>
T_Posted == <<"P","o","s","t","e","d"," ">>
T_via_Hirebase == <<" ","v","i","a"," ","H","i","r","e","b","a","s","e">>
V_Acme == <<"A","c","m","e">>
V_Atlanta == <<"A","t","l","a","n","t","a">>
V_Georgia == <<"G","e","o","r","g","i","a">>
V_United_States == <<"U","n","i","t","e","d"," ","S","t","a","t","e","s">>
V_Full_time == <<"F","u","l","l","-","t","i","m","e">>
V_Remote == <<"R","e","m","o","t","e">>
V_Link == <<"h","t","t","p","s",":","/","/","j","o","b","s",".","e","x","a","m","p","l","e","/","1">>
V_Date == <<"2","0","2","4","-","0","1","-","0","5">>
V_SIEM == <<"S","I","E","M">>
V_Splunk == <<"S","p","l","u","n","k">>
V_Summary == <<"M","o","n","i","t","o","r"," ","a","l","e","r","t","s">>

\* dict.get(key, default)
Get(d, key, default) == IF key \in DOMAIN d THEN d[key] ELSE default

\* a Python value that is a number or None
PyNum(n) == [none |-> FALSE, n |-> n]
PyNone == [none |-> TRUE, n |-> 0]

\* dict.get(key) and dict.get(key, 0) of a range object
GetNum(range, key) == IF key \in DOMAIN range THEN PyNum(range[key]) ELSE PyNone
GetNum0(range, key) == IF key \in DOMAIN range THEN PyNum(range[key]) ELSE PyNum(0)

\* truth value of a number or None
Truthy(v) == ~v.none /\ v.n # 0

DigitChars == <<"0", "1", "2", "3", "4", "5", "6", "7", "8", "9">>

RECURSIVE Digits(_)
\* str(n) of a natural number
Digits(n) ==
  IF n < 10 THEN <<DigitChars[n + 1]>>
  ELSE Digits(n \div 10) \o <<DigitChars[(n % 10) + 1]>>

\* f"{v}" of a number or None
Str(v) == IF v.none THEN T_None ELSE Digits(v.n)

RECURSIVE Grouped(_)
\* f"{n:,}" of a natural number
Grouped(n) ==
  IF n < 1000 THEN Digits(n)
  ELSE LET r == n % 1000
           pad == IF r < 10 THEN <<"0", "0">> ELSE IF r < 100 THEN <<"0">> ELSE <<>>
       IN Grouped(n \div 1000) \o <<",">> \o pad \o Digits(r)

\* text[:n]
Slice(text, n) == SubSeq(text, 1, Min(n, Len(text)))

\* re.sub(r'<[^>]*>', '', text): a match runs from a "<" to the first ">"
\* after it, so position i is deleted iff some "<" at or before i has no
\* ">" between it and i, and a ">" stands at or after i.
InTag(text, i) ==
  /\ \E e \in i..Len(text) : text[e] = ">"
  /\ \E j \in 1..i : /\ text[j] = "<"
                     /\ \A m \in j..(i - 1) : text[m] # ">"

strip_html(text) ==
  LET kept == SelectSeq([i \in 1..Len(text) |-> i],
                        LAMBDA i : ~InTag(text, i))
  IN [n \in 1..Len(kept) |-> text[kept[n]]]

\* a slot of the embed: a text, or None
Text(s) == [null |-> FALSE, text |-> s]
Null == [null |-> TRUE, text |-> <<>>]

Field(name, value, inline) == [name |-> name, value |-> value, inline |-> inline]

RECURSIVE JoinWith(_, _)
\* sep.join(parts)
JoinWith(sep, parts) ==
  IF Len(parts) = 0 THEN <<>>
  ELSE IF Len(parts) = 1 THEN parts[1]
  ELSE parts[1] \o sep \o JoinWith(sep, Tail(parts))

\* -------------------------------------------------------------- post_jobs.py
\* format_location(locations); a missing list arrives as None
format_location(locations) ==
  IF Len(locations) = 0 THEN T_Remote_Not_specified
  ELSE LET loc == locations[1]
           parts == SelectSeq(<<Get(loc, "city", <<>>), Get(loc, "region", <<>>),
                                Get(loc, "country", <<>>)>>,
                              LAMBDA p : p # <<>>)
       IN IF parts # <<>> THEN JoinWith(<<",", " ">>, parts)
                          ELSE T_Remote_Not_specified

\* format_experience(yoe_range); None and {} both take the first return
format_experience(yoe_range) ==
  IF DOMAIN yoe_range = {} THEN T_Not_specified
  ELSE LET min_yoe == GetNum(yoe_range, "min")
           max_yoe == GetNum(yoe_range, "max")
       IN IF min_yoe = max_yoe THEN Str(min_yoe) \o T_plus_years
          ELSE Str(min_yoe) \o <<"-">> \o Str(max_yoe) \o T_years

\* format_salary(salary_range)
format_salary(salary_range) ==
  IF DOMAIN salary_range = {} THEN T_Not_disclosed
  ELSE LET min_sal == GetNum(salary_range, "min")
           max_sal == GetNum(salary_range, "max")
           currency == Get(salary_range, "currency", T_USD)
           period == Get(salary_range, "period", T_year)
       IN IF Truthy(min_sal) /\ Truthy(max_sal)
          THEN <<"$">> \o Grouped(min_sal.n) \o <<" ", "-", " ", "$">>
               \o Grouped(max_sal.n) \o <<" ">> \o currency \o <<"/">> \o period
          ELSE T_Not_disclosed

\* the conditional expression that builds clean_description: `+` binds
\* tighter than `if ... else`, so the ellipsis is added whenever the
\* description is not empty
clean_description(text) ==
  IF text # <<>> THEN Slice(strip_html(text), 300) \o T_Ellipsis
                        ELSE T_No_description

\* format_job_embed(job) of post_jobs.py (the 'embeds' entry)
format_job_embed_jobs(j) ==
  [ title |-> Text(Get(j, "job_title", T_Untitled_Position)),
    url |-> IF "application_link" \in DOMAIN j THEN Text(j["application_link"])
                                               ELSE Null,
    fields |-> <<
      Field("Company", Text(Get(j, "company_name", T_Not_specified)), TRUE),
      Field("Location", Text(format_location(Get(j, "locations", <<>>))), TRUE),
      Field("Type", Text(Get(j, "job_type", T_Not_specified)), TRUE),
      Field("Experience",
            Text(format_experience(Get(j, "yoe_range", [k \in {} |-> 0]))), TRUE),
      Field("Salary",
            Text(format_salary(Get(j, "salary_range", [k \in {} |-> 0]))), TRUE),
      Field("Remote", Text(Get(j, "location_type", T_Not_specified)), TRUE) >>,
    description |-> Text(clean_description(Get(j, "description", <<>>))),
    footer |-> Text(T_Posted_colon \o Get(j, "date_posted", T_Unknown)
                    \o T_Via_API) ]

\* ------------------------- post_security_jobs.py and post_support_jobs.py
\* the location text of format_job_embed
single_location(j) ==
  LET location_type == Get(j, "location_type", <<>>)
      locations == Get(j, "locations", <<>>)
  IN IF Len(locations) > 0
     THEN LET city == Get(locations[1], "city", <<>>)
              country == Get(locations[1], "country", <<>>)
          IN IF city # <<>> /\ country # <<>>
             THEN city \o <<",", " ">> \o country
             ELSE IF city # <<>> THEN city
             ELSE IF country # <<>> THEN country
             ELSE location_type
     ELSE IF location_type # <<>> THEN location_type ELSE T_Not_specified

\* job.get('requirements_summary', '') or job.get('description', '')
raw_description(j) ==
  IF Get(j, "requirements_summary", <<>>) # <<>>
  THEN j["requirements_summary"]
  ELSE Get(j, "description", <<>>)

\* if len(description) > 400: description = description[:400] + "..."
truncate(text) ==
  IF Len(text) > 400 THEN Slice(text, 400) \o T_Ellipsis
                         ELSE text

\* post_security_jobs: the 'description' entry of the embed
description_security(j) ==
  LET text == truncate(raw_description(j))
  IN IF text # <<>> THEN text ELSE T_Click_below

\* post_support_jobs: the 'description' entry of the embed
description_support(j) ==
  LET text == raw_description(j)
  IN IF text # <<>> THEN truncate(strip_html(text))
                           ELSE T_Click_below

\* fields.append(...) for the job type
type_field(j) ==
  LET job_type == Get(j, "job_type", <<>>)
      location_type == Get(j, "location_type", <<>>)
  IN IF job_type # <<>>
     THEN <<Field("Type",
                  Text(job_type \o (IF location_type # <<>>
                                    THEN <<" ", "*", " ">> \o location_type
                                    ELSE <<>>)), TRUE)>>
     ELSE <<>>

\* fields.append(...) for the salary
salary_field(j) ==
  LET salary_range == Get(j, "salary_range", [k \in {} |-> 0])
      salary_min == GetNum0(salary_range, "min")
      salary_max == GetNum0(salary_range, "max")
      currency == Get(salary_range, "currency", T_USD)
  IN IF DOMAIN salary_range # {} /\ Truthy(salary_min) /\ Truthy(salary_max)
     THEN <<Field("Salary",
                  Text(<<"$">> \o Grouped(salary_min.n) \o <<" ", "-", " ", "$">>
                       \o Grouped(salary_max.n) \o <<" ">> \o currency), TRUE)>>
     ELSE <<>>

\* fields.append(...) for the experience range
experience_field(j) ==
  LET yoe_range == Get(j, "yoe_range", [k \in {} |-> 0])
      yoe_min == GetNum0(yoe_range, "min")
      yoe_max == GetNum0(yoe_range, "max")
  IN IF DOMAIN yoe_range # {} /\ (Truthy(yoe_min) \/ Truthy(yoe_max))
     THEN <<Field("Experience",
                  Text(IF yoe_min = yoe_max
                       THEN Str(yoe_min) \o T_plus_years
                       ELSE Str(yoe_min) \o <<"-">> \o Str(yoe_max) \o T_years),
                  TRUE)>>
     ELSE <<>>

\* fields.append(...) for the skills
skills_field(j) ==
  LET skills == Get(j, "skills", <<>>)
  IN IF skills # <<>>
     THEN <<Field("Key Skills", Text(JoinWith(<<",", " ">>, Slice(skills, 5))),
                  FALSE)>>
     ELSE <<>>

\* job_url.startswith('http')
StartsWithHttp(job_url) == Slice(job_url, 4) = T_http

\* the embed both single-channel scripts build around their description
single_embed(j, text) ==
  LET job_url == Get(j, "application_link", <<>>)
      embed0 ==
        [ title |-> Text(Get(j, "job_title", T_Unknown_Position)),
          description |-> Text(text),
          fields |-> <<Field("Company",
                             Text(Get(j, "company_name", T_Unknown_Company)), TRUE),
                       Field("Location", Text(single_location(j)), TRUE)>>
                     \o type_field(j) \o salary_field(j)
                     \o experience_field(j) \o skills_field(j),
          footer |-> Text(T_Posted \o Get(j, "date_posted", T_recently)
                          \o T_via_Hirebase) ]
  IN IF job_url # <<>> /\ StartsWithHttp(job_url)
     THEN ("url" :> Text(job_url)) @@ embed0
     ELSE embed0

format_job_embed_security(j) == single_embed(j, description_security(j))

format_job_embed_support(j) == single_embed(j, description_support(j))

\* ---------------------------------------------- inputs of format_job_embed
ScalarKeys ==
  {"job_title", "company_name", "location_type", "job_type",
   "application_link", "date_posted", "skills", "description",
   "requirements_summary"}

SampleValue ==
  [ job_title |-> SOC_Analyst, company_name |-> V_Acme,
    location_type |-> V_Remote, job_type |-> V_Full_time,
    application_link |-> V_Link, date_posted |-> V_Date,
    skills |-> <<V_SIEM, V_Splunk>>, description |-> incident_response,
    requirements_summary |-> V_Summary ]

\* an optional key is a sequence of no value or of one value
LocationChoices ==
  { <<>>, << <<>> >>, << <<[k \in {} |-> 0]>> >>,
    << <<[city |-> V_Atlanta, region |-> V_Georgia,
          country |-> V_United_States]>> >> }

SalaryChoices ==
  { <<>>, <<[min |-> 90000]>>, <<[min |-> 90000, max |-> 120000]>> }

ExperienceChoices ==
  { <<>>, <<[k \in {} |-> 0]>>, <<[min |-> 2]>>, <<[min |-> 3, max |-> 3]>>,
    <<[min |-> 2, max |-> 5]>> }

Optional(key, choice) ==
  IF choice = <<>> THEN [k \in {} |-> 0] ELSE key :> choice[1]

\* records with any subset of the optional fields missing
FieldJobs ==
  { [k \in ks |-> SampleValue[k]] @@ Optional("locations", loc)
      @@ Optional("salary_range", sal) @@ Optional("yoe_range", yoe) :
    ks \in SUBSET ScalarKeys, loc \in LocationChoices,
    sal \in SalaryChoices, yoe \in ExperienceChoices }

BodyLengths == {1, 5, 299, 300, 301, 399, 400, 401}

\* descriptions of the given lengths, plain and wrapped in a tag
BodyDescriptions ==
  {[i \in 1..n |-> "a"] : n \in BodyLengths}
  \cup {<<"<", "b", ">">> \o [i \in 1..n |-> "a"] \o <<"<", "/", "b", ">">> :
          n \in {300, 400}}

BodyJobs ==
  { [job_title |-> SOC_Analyst, company_name |-> V_Acme, description |-> d] :
    d \in BodyDescriptions }

InitFormat ==
  /\ variant \in {"jobs", "security", "support"}
  /\ job_arg \in FieldJobs \cup BodyJobs
  /\ embed = <<>>
  /\ pc = "format"
  /\ api_key = FALSE
  /\ webhooks = {}
  /\ test_mode = FALSE
  /\ jobs = <<>>
  /\ jobs_by_channel = [c \in {} |-> <<>>]
  /\ chan = 1
  /\ idx = 1
  /\ total_posted = 0
  /\ exit_code = -1
  /\ error_names = {}
  /\ search_calls = 0
  /\ fetch_status = "none"
  /\ attempted = <<>>
  /\ slept = FALSE
  /\ report = NoReport
  /\ title = <<>>
  /\ description = <<>>
  /\ categories = <<>>
  /\ result = None

Formatted(e) ==
  /\ pc = "format"
  /\ embed' = e
  /\ pc' = "formatted"
  /\ UNCHANGED <<variant, api_key, webhooks, test_mode, jobs, jobs_by_channel,
                 chan, idx, total_posted, exit_code, error_names, search_calls,
                 fetch_status, attempted, slept, report, job_arg>>
  /\ UNCHANGED classifyVars

FormatJobs == variant = "jobs" /\ Formatted(format_job_embed_jobs(job_arg))

FormatSecurity ==
  variant = "security" /\ Formatted(format_job_embed_security(job_arg))

FormatSupport ==
  variant = "support" /\ Formatted(format_job_embed_support(job_arg))

NextFormat == FormatJobs \/ FormatSecurity \/ FormatSupport

SpecFormat == InitFormat /\ [][NextFormat]_vars

\* =================================================================== claims
Indices == [i \in 1..Len(jobs) |-> i]

\* indices of the fetched jobs that categorize_job sends to channel c
ChannelJobs(c) == SelectSeq(Indices, LAMBDA i : JobChannel[jobs[i]] = c)

FirstN(s, n) == SubSeq(s, 1, Min(n, Len(s)))

RECURSIVE ScheduleFrom(_)
\* the <<channel, job index>> pairs a complete run of post_jobs must attempt
ScheduleFrom(k) ==
  IF k > Len(CHANNEL_ORDER) THEN <<>>
  ELSE LET c == CHANNEL_ORDER[k]
           own == FirstN(ChannelJobs(c), 5)
       IN (IF c \in webhooks
           THEN [p \in 1..Len(own) |-> <<c, own[p]>>]
           ELSE <<>>) \o ScheduleFrom(k + 1)

Schedule == ScheduleFrom(1)

Failed == {p \in 1..Len(attempted) : ~attempted[p].ok}

Single == variant \in {"security", "support"}

\* C1: in post_jobs, a failed delivery does not abort the run: every message
\* that the schedule (channels with a webhook, in order, first 5 jobs each)
\* places after a failed one is still attempted by the time the run ends.
C1_FailureDoesNotAbort ==
  (variant = "jobs" /\ pc = "done") =>
    \A p \in Failed :
      \A q \in (p + 1)..Len(Schedule) :
        /\ q <= Len(attempted)
        /\ <<attempted[q].channel, attempted[q].job>> = Schedule[q]

\* a finished run with a failed delivery followed by a delivery to the same
\* channel and by a delivery to a later channel
C1_Witness ==
  /\ variant = "jobs"
  /\ pc = "done"
  /\ \E p \in Failed :
       /\ \E q \in (p + 1)..Len(attempted) :
            attempted[q].channel = attempted[p].channel
       /\ \E q \in (p + 1)..Len(attempted) :
            attempted[q].channel # attempted[p].channel

\* C2: in the single-channel scripts a delivery error on one job message
\* skips that message only: every later job message of the batch is attempted.
C2_SingleErrorSkipsOneMessage ==
  (Single /\ pc = "done") =>
    \A p \in Failed :
      attempted[p].kind = "embed" =>
        \A j \in (attempted[p].job + 1)..Len(embed_jobs) :
          Job[embed_jobs[j]].is_dict =>
            \E q \in (p + 1)..Len(attempted) :
              attempted[q].kind = "embed" /\ attempted[q].job = j

AttemptsTo(c) == SelectSeq(attempted, LAMBDA a : a.channel = c)

\* C4: in post_jobs every channel gets at most 5 delivery attempts, none
\* without a webhook, and at the end of a run the jobs attempted for a
\* channel with a webhook are exactly the first min(5, n) jobs that
\* categorize_job assigns to it, in fetched order.
C4_CapPerChannel ==
  variant = "jobs" =>
    \A k \in 1..Len(CHANNEL_ORDER) :
      LET c == CHANNEL_ORDER[k]
          att == AttemptsTo(c)
      IN /\ Len(att) <= 5
         /\ (c \notin webhooks) => att = <<>>
         /\ (pc = "done" /\ DOMAIN report # {} /\ c \in webhooks) =>
              [p \in 1..Len(att) |-> att[p].job] = FirstN(ChannelJobs(c), 5)

\* a finished run in which a channel with a webhook had more than 5 jobs
C4_Witness ==
  /\ variant = "jobs"
  /\ pc = "done"
  /\ DOMAIN report # {}
  /\ \E c \in webhooks :
       /\ Len(ChannelJobs(c)) > 5
       /\ Len(AttemptsTo(c)) = 5

\* C5: a single-channel run posts at most 10 job (embed) messages, taken
\* from the front of the fetched list in order.
C5_SingleCap ==
  Single =>
    LET embeds == SelectSeq(attempted, LAMBDA a : a.kind = "embed")
    IN /\ Len(embeds) <= 10
       /\ \A p \in 1..Len(embeds) : embeds[p].job <= 10

\* C8: with both secrets missing a single-channel run ends with a
\* configuration error naming both, exits non-zero and sends no request.
C8_MissingBothListsBoth ==
  (Single /\ pc = "done" /\ ~api_key /\ webhooks = {}) =>
    /\ error_names = {"HIREBASE_API_KEY", "DISCORD_SECURITY_HOOK"}
    /\ exit_code # 0
    /\ search_calls = 0
    /\ attempted = <<>>
  /\ slept = FALSE

\* C9: a fetch error is not fatal in any script: zero jobs, no delivery
\* request, exit code 0.
C9_FetchErrorNotFatal ==
  (pc = "done" /\ fetch_status \in FetchErrors) =>
    /\ jobs = <<>>
    /\ attempted = <<>>
  /\ slept = FALSE
    /\ exit_code = 0

Malformed == {i \in 1..Len(jobs) : ~Job[jobs[i]].is_dict}

\* the well-formed records a run without delivery errors has to post
Postable ==
  IF variant = "jobs"
  THEN {i \in 1..Len(jobs) \ Malformed :
          /\ JobChannel[jobs[i]] \in webhooks
          /\ Cardinality({j \in 1..i \ Malformed :
                            JobChannel[jobs[j]] = JobChannel[jobs[i]]}) <= 5}
  ELSE {i \in 1..Len(embed_jobs) : Job[embed_jobs[i]].is_dict}

\* C10: a record that is not a mapping is skipped alone: nothing is
\* delivered for it, the run does not abort, and (when no delivery fails)
\* every well-formed record after it is still posted.
C10_MalformedRecordSkipped ==
  (pc = "done" /\ Malformed # {} /\ Failed = {}) =>
    /\ exit_code = 0
    /\ \A p \in 1..Len(attempted) :
         attempted[p].kind = "embed" => attempted[p].job \notin Malformed
    /\ \A i \in Postable :
         (\E m \in Malformed : m < i) =>
           \E p \in 1..Len(attempted) :
             attempted[p].kind = "embed" /\ attempted[p].job = i

\* -------------------------------------------------- claims on categorize_job
Classified == pc = "classify" /\ result # "pending"

\* the lower-cased concatenation of title, description and hints
ClaimText ==
  Lower(title \o <<" ">> \o description \o <<" ">> \o Join(categories))

HasKeyword(c) ==
  \E k \in 1..Len(CHANNEL_KEYWORDS[c]) : Contains(CHANNEL_KEYWORDS[c][k], ClaimText)

\* C6: categorize_job returns the first channel, in the order data,
\* operations, security, development, management, network, supporthelp, one
\* of whose keywords occurs in the lower-cased text; no channel when none.
C6_FirstMatchingChannel ==
  Classified =>
    LET order == <<"data", "operations", "security", "development",
                   "management", "network", "supporthelp">>
    IN IF \E k \in 1..7 : HasKeyword(order[k])
       THEN \E k \in 1..7 :
              /\ result = order[k]
              /\ HasKeyword(order[k])
              /\ \A e \in 1..(k - 1) : ~HasKeyword(order[e])
       ELSE result = None

\* a text matching keywords of two channels, classified to the earlier one
\* which is not the first of the table
C6_Witness ==
  /\ Classified
  /\ result = "security"
  /\ HasKeyword("network")

\* C7 as stated: "SOC Analyst" with a description containing
\* "incident response" is classified as security.
C7_SocAnalystIsSecurity ==
  (Classified /\ title = SOC_Analyst /\ Contains(incident_response, description))
    => result = "security"

\* C7 amended: it is classified as data, because the data keyword "analyst"
\* occurs in the text and data precedes security in the table.
C7_SocAnalystIsData ==
  (Classified /\ title = SOC_Analyst /\ Contains(incident_response, description))
    => /\ result = "data"
       /\ HasKeyword("security")

C7_Witness ==
  /\ Classified
  /\ title = SOC_Analyst
  /\ description = Triage_alerts
  /\ result = "data"

\* ------------------------------------------------------------------ C11
\* a run of post_jobs that got as far as the posting loops
JobsDispatched ==
  /\ variant = "jobs"
  /\ pc = "done"
  /\ fetch_status = "ok"
  /\ jobs # <<>>
  /\ Malformed = {}

\* C11: in post_jobs a channel without a webhook is skipped without failing
\* the run: none of its jobs is attempted, every channel that has a webhook
\* and jobs is still posted to, and the run exits 0.
C11_NoWebhookSkipped ==
  JobsDispatched =>
    /\ exit_code = 0
    /\ \A k \in 1..Len(CHANNEL_ORDER) :
         LET c == CHANNEL_ORDER[k]
         IN /\ (c \notin webhooks) => AttemptsTo(c) = <<>>
            /\ (c \in webhooks /\ ChannelJobs(c) # <<>>) =>
                 AttemptsTo(c) # <<>>

\* a finished run with jobs in a channel without a webhook ahead of a
\* channel with a webhook that was posted to
C11_Witness ==
  /\ JobsDispatched
  /\ exit_code = 0
  /\ "data" \notin webhooks
  /\ ChannelJobs("data") # <<>>
  /\ "supporthelp" \in webhooks
  /\ AttemptsTo("supporthelp") # <<>>

\* ------------------------------------------------------------------ C12
Embeds == {p \in 1..Len(attempted) : attempted[p].kind = "embed"}

\* C12: in one run every fetched job record gives rise to at most one
\* delivery attempt: it is never posted to two destinations and a failed
\* delivery is never retried.
C12_AtMostOneAttemptPerJob ==
  \A p, q \in Embeds : attempted[p].job = attempted[q].job => p = q

\* a finished run of post_jobs where a job whose text has keywords of two
\* channels, both with a webhook, was attempted and the delivery failed
C12_Witness ==
  /\ JobsDispatched
  /\ {"data", "security"} \subseteq webhooks
  /\ \E p \in Embeds :
       /\ ~attempted[p].ok
       /\ {"data", "security"} \subseteq JobMatches[jobs[attempted[p].job]]

\* ------------------------------------------------------------------ C13
\* C13: between any two consecutive delivery requests of a run there is a
\* blocking pause, whether the earlier request succeeded or failed.
C13_PauseBetweenDeliveries ==
  [][(attempted # <<>> /\ Len(attempted') > Len(attempted)) => slept]_vars

\* ------------------------------------------------------------------ C14
FormattedState == pc = "formatted"

BodyCap == IF variant = "jobs" THEN 300 ELSE 400

\* the description the script reads, after its markup stripping
BodySource ==
  IF variant = "jobs" THEN strip_html(Get(job_arg, "description", <<>>))
  ELSE IF variant = "security" THEN raw_description(job_arg)
  ELSE strip_html(raw_description(job_arg))

\* C14: the body text of the formatted message is at most the cap of the
\* script long (300 in post_jobs, 400 in the single-channel scripts), and a
\* description that fits the cap is rendered as it is, with no ellipsis.
C14_BodyWithinCap ==
  (FormattedState /\ BodySource # <<>>) =>
    /\ Len(embed.description.text) <= BodyCap
    /\ Len(BodySource) <= BodyCap => embed.description.text = BodySource

\* ------------------------------------------------------------------ C15
\* every slot of the embed that holds a value
Slots ==
  {embed.title, embed.description, embed.footer}
  \cup (IF "url" \in DOMAIN embed THEN {embed.url} ELSE {})
  \cup {embed.fields[i].value : i \in 1..Len(embed.fields)}

\* C15: for a record with any subset of the optional fields missing, no
\* slot of the formatted message is null or rendered from a missing value.
C15_NoNullSlot ==
  FormattedState =>
    \A s \in Slots : ~s.null /\ ~Contains(T_None, s.text)

\* ------------------------------------------------------------------ C16
\* C16: in the single-channel scripts, with a non-empty job list, the
\* summary is the first delivery request, no job message is attempted
\* unless the summary was delivered, and a failed summary ends the run
\* with no job message sent and a non-zero exit code.
C16_SummaryFirst ==
  (Single /\ jobs # <<>>) =>
    /\ attempted # <<>> => attempted[1].kind = "summary"
    /\ Embeds # {} => attempted[1].ok
    /\ (pc = "done" /\ attempted # <<>> /\ ~attempted[1].ok) =>
         /\ Embeds = {}
         /\ exit_code # 0

\* a finished run with well-formed jobs whose summary request failed
C16_Witness ==
  /\ Single
  /\ pc = "done"
  /\ \E i \in 1..Len(jobs) : Job[jobs[i]].is_dict
  /\ Len(attempted) = 1
  /\ attempted[1].kind = "summary"
  /\ ~attempted[1].ok
  /\ exit_code = 1

====
